---- MODULE Spec2Model ----
(***************************************************************************)
(* Model of the SNIL code editor's script-to-graph compiler               *)
(* (src/src/views/graph/script_graph.py) and of the editor's autocomplete  *)
(* (src/src/views/code_editor.py, src/src/views/autocomplete_popup.py).    *)
(*                                                                         *)
(* Text is a sequence of atoms.  An atom is one character of whitespace    *)
(* or punctuation (" ", "\n", ":") or one whole word ("if", "endif",       *)
(* "name", ...): Python's str and re operations are modelled on these      *)
(* sequences, so strip, split, lower and the regular expressions are       *)
(* computed, not assumed.                                                  *)
(***************************************************************************)
EXTENDS Integers, Sequences, FiniteSets, TLC

VARIABLES
  doc,                     \* the lines of the script given to the graph window
  config,                  \* which node_types_config.json the graph window finds
  tabs,                    \* the sections the graph window shows
  raised,                  \* the exception parse_script_content ended with
  parent_window,           \* CodeEditor.parent_window: None or the host's caches
  current_line,            \* the characters of the editor's text block
  cursor_pos,              \* textCursor().positionInBlock()
  is_autocomplete_active,  \* CodeEditor.is_autocomplete_active
  popup_items,             \* the texts of the items of the AutocompletePopup
  popup_row,               \* AutocompletePopup.currentRow(), -1 when there is none
  popup_visible,           \* AutocompletePopup.isVisible()
  timer_active,            \* autocomplete_timer is running
  typed,                   \* texts put into the block so far: typed, pasted, chosen
  blocks,                  \* the lines of the blocks of the editor's document
  visible,                 \* QTextBlock.isVisible() of every block
  fold_ranges,             \* CodeEditor._fold_ranges: start block -> end block
  folded                   \* CodeEditor._folded

graph_vars == <<doc, config, tabs, raised>>

editor_vars ==
  <<parent_window, current_line, cursor_pos, is_autocomplete_active,
    popup_items, popup_row, popup_visible, timer_active, typed>>

fold_vars == <<blocks, visible, fold_ranges, folded>>

vars == <<graph_vars, editor_vars, fold_vars>>

---------------------------------------------------------------------------
(* Python str helpers on atom sequences *)

NL == "\n"

\* str.isspace for one atom
IsSpace(a) == a \in {" ", NL, "\t"}

\* the atoms with an upper-case letter, and their lower-case form
LowerTable ==
  [ If |-> "if", Show |-> "show", Variant |-> "variant", True |-> "true",
    False |-> "false", EndIf |-> "endif", Name |-> "name", Call |-> "call",
    Jump |-> "jump", To |-> "to", St |-> "st", Alice |-> "alice",
    A |-> "a", S |-> "s", X |-> "x", J |-> "j", T |-> "t" ]

\* str.lower for one atom
Lower(a) == IF a \in DOMAIN LowerTable THEN LowerTable[a] ELSE a

LowerStr(s) == [i \in 1..Len(s) |-> Lower(s[i])]

\* a.startswith(p) for a lower-case atom a and a lower-case literal p
AtomStartsWith(a, p) ==
  \/ a = p
  \/ <<a, p>> \in {<<"endif", "end">>, <<"ending", "end">>, <<"started", "start">>}

RECURSIVE LStrip(_)
LStrip(s) == IF s # <<>> /\ IsSpace(Head(s)) THEN LStrip(Tail(s)) ELSE s

RECURSIVE RStrip(_)
RStrip(s) ==
  IF s # <<>> /\ IsSpace(s[Len(s)]) THEN RStrip(SubSeq(s, 1, Len(s) - 1)) ELSE s

\* str.strip()
Strip(s) == RStrip(LStrip(s))

\* str.find(sep, from): least index >= from where sep occurs, 0 when absent
RECURSIVE Find(_, _, _)
Find(s, sep, from) ==
  IF from + Len(sep) - 1 > Len(s) THEN 0
  ELSE IF \A j \in 1..Len(sep) : s[from + j - 1] = sep[j] THEN from
  ELSE Find(s, sep, from + 1)

\* sep in s
Contains(s, sep) == Find(s, sep, 1) # 0

\* str.split(sep): non-overlapping occurrences, left to right
RECURSIVE Split(_, _)
Split(s, sep) ==
  LET i == Find(s, sep, 1)
  IN  IF i = 0 THEN <<s>>
      ELSE <<SubSeq(s, 1, i - 1)>> \o Split(SubSeq(s, i + Len(sep), Len(s)), sep)

\* sep.join(parts)
RECURSIVE Join(_, _)
Join(parts, sep) ==
  IF parts = <<>> THEN <<>>
  ELSE IF Len(parts) = 1 THEN parts[1]
  ELSE parts[1] \o sep \o Join(Tail(parts), sep)

---------------------------------------------------------------------------
(* Regular expressions.  A pattern is a sequence of elements, matched from *)
(* a position as re.match does, case-insensitively (every use in the       *)
(* source passes re.IGNORECASE); literals are written in lower case.       *)
(*   <<"ws*">>    \s*      <<"ws+">>    \s+                                *)
(*   <<"lit", w>> the whole word or character w                            *)
(*   <<"pre", w>> the letters w, with anything after them                  *)
(*   <<"any*">>   .*       <<"eol">>    $                                  *)

RECURSIVE SkipWs(_, _)
SkipWs(s, i) == IF i <= Len(s) /\ IsSpace(s[i]) THEN SkipWs(s, i + 1) ELSE i

RECURSIVE ReMatchAt(_, _, _, _)
ReMatchAt(pat, k, s, i) ==
  IF k > Len(pat) THEN TRUE
  ELSE LET e == pat[k]
       IN  CASE e[1] = "ws*" -> ReMatchAt(pat, k + 1, s, SkipWs(s, i))
             [] e[1] = "ws+" ->
                  /\ i <= Len(s)
                  /\ IsSpace(s[i])
                  /\ ReMatchAt(pat, k + 1, s, SkipWs(s, i))
             [] e[1] = "lit" ->
                  /\ i <= Len(s)
                  /\ Lower(s[i]) = e[2]
                  /\ ReMatchAt(pat, k + 1, s, i + 1)
             [] e[1] = "pre" ->
                  /\ i <= Len(s)
                  /\ AtomStartsWith(Lower(s[i]), e[2])
                  /\ ReMatchAt(pat, k + 1, s, i + 1)
             [] e[1] = "any*" -> ReMatchAt(pat, k + 1, s, Len(s) + 1)
             [] e[1] = "eol" -> i > Len(s)

\* re.match(pattern, line, re.IGNORECASE)
ReMatch(pat, line) == ReMatchAt(pat, 1, line, 1)

\* the pattern compiles: re.match raises re.error for one that does not,
\* written here as the single element <<"invalid">> (an unbalanced "(")
IsValidPattern(pat) == \A k \in 1..Len(pat) : pat[k][1] # "invalid"

\* the patterns of the built-in configuration
PatStart == <<<<"pre", "start">>>>
PatEnd == <<<<"pre", "end">>>>
PatFunction == <<<<"ws*">>, <<"lit", "function">>, <<"ws+">>>>
PatCall == <<<<"ws*">>, <<"lit", "call">>, <<"ws+">>>>
PatJump == <<<<"ws*">>, <<"lit", "jump">>, <<"ws+">>, <<"lit", "to">>, <<"ws+">>>>
PatWait == <<<<"ws*">>, <<"lit", "wait">>, <<"ws+">>>>
PatShow == <<<<"ws*">>, <<"lit", "show">>, <<"ws+">>>>
PatIf == <<<<"ws*">>, <<"lit", "if">>, <<"ws+">>, <<"any*">>>>
PatIgnoreName == <<<<"ws*">>, <<"lit", "name">>, <<"ws*">>, <<"lit", ":">>>>
PatIgnoreBlank == <<<<"ws*">>, <<"eol">>>>

\* the fallback of _load_node_types_config
DefaultConfig ==
  [ node_types |->
      << [name |-> "start", pattern |-> PatStart],
         [name |-> "end", pattern |-> PatEnd],
         [name |-> "function", pattern |-> PatFunction],
         [name |-> "function_call", pattern |-> PatCall],
         [name |-> "jump", pattern |-> PatJump],
         [name |-> "wait", pattern |-> PatWait],
         [name |-> "show", pattern |-> PatShow],
         [name |-> "condition", pattern |-> PatIf] >>,
    default_node_type |-> "dialogue",
    ignore_patterns |-> <<PatIgnoreName, PatIgnoreBlank>> ]

---------------------------------------------------------------------------
(* ScriptGraphWindow *)

None == [id |-> <<"None", 0>>, type |-> "None", content |-> <<>>]

\* f"n_{node_id_counter}"
NodeId(k) == <<"n_", k>>

ScriptGraphNode(node_id, node_type, text) ==
  [id |-> node_id, type |-> node_type, content |-> text]

\* any(re.match(p, line, re.IGNORECASE) for p in ignore_patterns)
Ignored(line, ignore_patterns) ==
  \E k \in 1..Len(ignore_patterns) : ReMatch(ignore_patterns[k], line)

\* mutant: the last rule whose pattern matches wins
RECURSIVE FirstMatch_Last(_, _, _)
FirstMatch_Last(line, node_types, k) ==
  IF k > Len(node_types) THEN 0
  ELSE IF ~IsValidPattern(node_types[k].pattern) THEN -1
  ELSE LET later == FirstMatch_Last(line, node_types, k + 1)
       IN  IF later # 0 THEN later
           ELSE IF ReMatch(node_types[k].pattern, line) THEN k
           ELSE 0

\* index of the first rule whose pattern matches, 0 when none does, -1 when
\* re.match raises re.error on a pattern reached before any match
RECURSIVE FirstMatch(_, _, _)
FirstMatch(line, node_types, k) ==
  IF k > Len(node_types) THEN 0
  ELSE IF ~IsValidPattern(node_types[k].pattern) THEN -1
  ELSE IF ReMatch(node_types[k].pattern, line) THEN k
  ELSE FirstMatch(line, node_types, k + 1)

\* the type given by the rule at index k of the main line's loop: the
\* default for 0 (no match); "re.error" for -1, standing for the exception
\* that leaves the loop at this line
MainType(k, node_types, default_node_type) ==
  IF k = 0 THEN default_node_type
  ELSE IF k = -1 THEN "re.error"
  ELSE IF node_types[k].name = "function_call" THEN "function"
  ELSE node_types[k].name

\* the classification loop of parse_script_content (main line)
ClassifyMain(line, node_types, default_node_type) ==
  MainType(FirstMatch(line, node_types, 1), node_types, default_node_type)

\* the type given by the rule at index k of process_branch's loop
BranchType(k, node_types, default_node_type) ==
  IF k = 0 THEN default_node_type
  ELSE IF k = -1 THEN "re.error"
  ELSE node_types[k].name

\* the classification loop of process_branch
ClassifyBranch(line, node_types, default_node_type) ==
  BranchType(FirstMatch(line, node_types, 1), node_types, default_node_type)

\* process_branch(block, counter): <<branch_nodes, counter>>
RECURSIVE process_branch(_, _, _, _)
process_branch(block, counter, node_types, default_node_type) ==
  IF block = <<>> THEN <<<<>>, counter>>
  ELSE LET line == Head(block)
       IN  IF Strip(line) = <<>>
           THEN process_branch(Tail(block), counter, node_types, default_node_type)
           ELSE LET nt == ClassifyBranch(line, node_types, default_node_type)
                    rest == process_branch(Tail(block), counter + 1,
                                           node_types, default_node_type)
                IN  <<<<ScriptGraphNode(NodeId(counter), nt, line)>> \o rest[1],
                      rest[2]>>

\* mutant: a line met before any marker is dropped
RECURSIVE RouteLines_DropUnrouted(_, _, _, _)
RouteLines_DropUnrouted(lines, i, current_block, acc) ==
  IF i > Len(lines) THEN acc
  ELSE LET line == Strip(lines[i])
       IN  IF LowerStr(line) = <<"true", ":">>
           THEN RouteLines_DropUnrouted(lines, i + 1, "true", acc)
           ELSE IF LowerStr(line) = <<"false", ":">>
           THEN RouteLines_DropUnrouted(lines, i + 1, "false", acc)
           ELSE IF LowerStr(line) = <<"endif">>
           THEN acc
           ELSE IF current_block = "true"
           THEN RouteLines_DropUnrouted(lines, i + 1, current_block,
                                        [acc EXCEPT !.true_block = @ \o <<line>>])
           ELSE IF current_block = "false"
           THEN RouteLines_DropUnrouted(lines, i + 1, current_block,
                                        [acc EXCEPT !.false_block = @ \o <<line>>])
           ELSE RouteLines_DropUnrouted(lines, i + 1, current_block, acc)

\* the routing loop of _parse_conditional_block, from line i (1-based) on:
\* [cond_content, true_block, false_block]; current_block is "none",
\* "true" or "false"
RECURSIVE RouteLines(_, _, _, _)
RouteLines(lines, i, current_block, acc) ==
  IF i > Len(lines) THEN acc
  ELSE LET line == Strip(lines[i])
       IN  IF LowerStr(line) = <<"true", ":">>
           THEN RouteLines(lines, i + 1, "true", acc)
           ELSE IF LowerStr(line) = <<"false", ":">>
           THEN RouteLines(lines, i + 1, "false", acc)
           ELSE IF LowerStr(line) = <<"endif">>
           THEN acc
           ELSE IF current_block = "true"
           THEN RouteLines(lines, i + 1, current_block,
                           [acc EXCEPT !.true_block = @ \o <<line>>])
           ELSE IF current_block = "false"
           THEN RouteLines(lines, i + 1, current_block,
                           [acc EXCEPT !.false_block = @ \o <<line>>])
           ELSE RouteLines(lines, i + 1, current_block,
                           [acc EXCEPT !.cond_content = @ \o <<NL>> \o line])

\* mutant: the edge between the condition node and a branch points back
BranchConns_BackToCondition(condition_node, b_nodes) ==
  IF b_nodes = <<>> THEN <<>>
  ELSE <<<<b_nodes[1].id, condition_node.id>>>>
       \o [j \in 1..(Len(b_nodes) - 1) |-> <<b_nodes[j].id, b_nodes[j + 1].id>>]

\* the edges from the condition node into a branch and along it
BranchConns(condition_node, b_nodes) ==
  IF b_nodes = <<>> THEN <<>>
  ELSE <<<<condition_node.id, b_nodes[1].id>>>>
       \o [j \in 1..(Len(b_nodes) - 1) |-> <<b_nodes[j].id, b_nodes[j + 1].id>>]

\* mutant: the condition node stands for a branch even when it has nodes
LastOrCondition_AlwaysCondition(b_nodes, condition_node) == condition_node

\* mutant: an empty branch leaves no join source
LastOrCondition_NoneWhenEmpty(b_nodes, condition_node) ==
  IF b_nodes # <<>> THEN b_nodes[Len(b_nodes)] ELSE None

\* t_nodes[-1] if t_nodes else condition_node
LastOrCondition(b_nodes, condition_node) ==
  IF b_nodes # <<>> THEN b_nodes[Len(b_nodes)] ELSE condition_node

\* mutant: the false branch is numbered and emitted before the true branch
ParseConditionalBlock_FalseFirst(lines, start_id, node_types, default_node_type) ==
  LET routed == RouteLines(lines, 2, "none",
                           [cond_content |-> Strip(lines[1]),
                            true_block |-> <<>>, false_block |-> <<>>])
      condition_node == ScriptGraphNode(NodeId(start_id), "if_show_variant",
                                        routed.cond_content)
      f == process_branch(routed.false_block, start_id + 1,
                          node_types, default_node_type)
      t == process_branch(routed.true_block, f[2], node_types, default_node_type)
  IN  [ nodes |-> <<condition_node>> \o f[1] \o t[1],
        conns |-> BranchConns(condition_node, t[1])
                  \o BranchConns(condition_node, f[1]),
        l_true |-> LastOrCondition(t[1], condition_node),
        l_false |-> LastOrCondition(f[1], condition_node) ]

\* _parse_conditional_block: [nodes, conns, l_true, l_false]
ParseConditionalBlock(lines, start_id, node_types, default_node_type) ==
  LET routed == RouteLines(lines, 2, "none",
                           [cond_content |-> Strip(lines[1]),
                            true_block |-> <<>>, false_block |-> <<>>])
      condition_node == ScriptGraphNode(NodeId(start_id), "if_show_variant",
                                        routed.cond_content)
      t == process_branch(routed.true_block, start_id + 1,
                          node_types, default_node_type)
      f == process_branch(routed.false_block, t[2], node_types, default_node_type)
      t_nodes == t[1]
      f_nodes == f[1]
  IN  [ nodes |-> <<condition_node>> \o t_nodes \o f_nodes,
        conns |-> BranchConns(condition_node, t_nodes)
                  \o BranchConns(condition_node, f_nodes),
        l_true |-> LastOrCondition(t_nodes, condition_node),
        l_false |-> LastOrCondition(f_nodes, condition_node) ]

\* re.match(r'^\s*if\s+.*', line, re.IGNORECASE) or 'If Show Variant' in line
IsTrigger(line) ==
  \/ ReMatch(PatIf, line)
  \/ Contains(line, <<"If", " ", "Show", " ", "Variant">>)

\* the inner while of the pre-scan: the index just past the block that
\* starts at the trigger line before line_idx
RECURSIVE BlockEnd(_, _)
BlockEnd(lines, line_idx) ==
  IF line_idx > Len(lines) THEN line_idx
  ELSE IF LowerStr(Strip(lines[line_idx])) = <<"endif">> THEN line_idx + 1
  ELSE BlockEnd(lines, line_idx + 1)

\* the pre-scan of parse_script_content: processed_lines
RECURSIVE PreScan(_, _)
PreScan(lines, line_idx) ==
  IF line_idx > Len(lines) THEN <<>>
  ELSE LET line == Strip(lines[line_idx])
       IN  IF IsTrigger(line)
           THEN LET e == BlockEnd(lines, line_idx + 1)
                IN  <<[type |-> "conditional",
                       lines |-> [j \in 1..(e - line_idx) |->
                                    Strip(lines[line_idx + j - 1])]]>>
                    \o PreScan(lines, e)
           ELSE <<[type |-> "normal", lines |-> <<line>>]>>
                \o PreScan(lines, line_idx + 1)

\* mutant: the pending edges point at the id after the new node's
EndConns_NextId(conditional_end_nodes, node) ==
  [j \in 1..Len(conditional_end_nodes) |->
     <<conditional_end_nodes[j].id, NodeId(node.id[2] + 1)>>]

\* one edge from every pending conditional end node to node
EndConns(conditional_end_nodes, node) ==
  [j \in 1..Len(conditional_end_nodes) |-> <<conditional_end_nodes[j].id, node.id>>]

\* mutant: the counter advances past the condition node only
CounterAfterBlock_ConditionOnly(node_id_counter, c_nodes) == node_id_counter + 1

\* node_id_counter += len(c_nodes)
CounterAfterBlock(node_id_counter, c_nodes) == node_id_counter + Len(c_nodes)

\* if l_true: conditional_end_nodes.append(l_true), and the same for l_false
AppendEnd(conditional_end_nodes, l) ==
  IF l # None THEN Append(conditional_end_nodes, l) ELSE conditional_end_nodes

\* one iteration of "for item_type, item_lines in processed_lines"
\* st = [nodes, connections, node_id_counter, prev_node, conditional_end_nodes]
BuildStep(st, item, cfg) ==
  IF item.type = "conditional"
  THEN LET c == ParseConditionalBlock(item.lines, st.node_id_counter,
                                      cfg.node_types, cfg.default_node_type)
       IN  [ nodes |-> st.nodes \o c.nodes,
             connections |->
               st.connections \o c.conns
               \o (IF st.prev_node # None /\ c.nodes # <<>>
                   THEN <<<<st.prev_node.id, c.nodes[1].id>>>> ELSE <<>>),
             conditional_end_nodes |->
               AppendEnd(AppendEnd(st.conditional_end_nodes, c.l_true), c.l_false),
             node_id_counter |-> CounterAfterBlock(st.node_id_counter, c.nodes),
             prev_node |-> None ]
  ELSE LET line == item.lines[1]
       IN  IF Ignored(line, cfg.ignore_patterns) THEN st
           ELSE LET node == ScriptGraphNode(
                              NodeId(st.node_id_counter),
                              ClassifyMain(line, cfg.node_types, cfg.default_node_type),
                              line)
                IN  [ nodes |-> st.nodes \o <<node>>,
                      connections |->
                        st.connections
                        \o EndConns(st.conditional_end_nodes, node)
                        \o (IF st.prev_node # None /\ st.conditional_end_nodes = <<>>
                            THEN <<<<st.prev_node.id, node.id>>>> ELSE <<>>),
                      conditional_end_nodes |-> <<>>,
                      prev_node |-> node,
                      node_id_counter |-> st.node_id_counter + 1 ]

RECURSIVE BuildFrom(_, _, _, _)
BuildFrom(items, k, st, cfg) ==
  IF k > Len(items) THEN st
  ELSE BuildFrom(items, k + 1, BuildStep(st, items[k], cfg), cfg)

BuildInit ==
  [ nodes |-> <<>>, connections |-> <<>>, node_id_counter |-> 0,
    prev_node |-> None, conditional_end_nodes |-> <<>> ]

\* the graph of one stripped, non-empty section
BuildSection(section, cfg) ==
  BuildFrom(PreScan(Split(section, <<NL>>), 1), 1, BuildInit, cfg)

\* ^name:\s*(.+) at position p of the section (re.MULTILINE | re.IGNORECASE):
\* the stripped group, or <<>> when there is no match at p
NameAt(section, p) ==
  IF /\ (p = 1 \/ section[p - 1] = NL)
     /\ p + 1 <= Len(section)
     /\ Lower(section[p]) = "name"
     /\ section[p + 1] = ":"
  THEN LET g == SkipWs(section, p + 2)
           nl == Find(section, <<NL>>, g)
           e == IF nl = 0 THEN Len(section) ELSE nl - 1
       IN  IF g > Len(section) THEN <<>> ELSE Strip(SubSeq(section, g, e))
  ELSE <<>>

\* re.search: the first position with a match, 0 when there is none
RECURSIVE NameSearch(_, _)
NameSearch(section, p) ==
  IF p > Len(section) THEN 0
  ELSE IF NameAt(section, p) # <<>> THEN p
  ELSE NameSearch(section, p + 1)

\* section_name of the block at index i (0-based) of the split
SectionName(section, i) ==
  LET p == NameSearch(section, 1)
  IN  IF p # 0 THEN NameAt(section, p) ELSE <<"Section", " ", ToString(i + 1)>>

\* the build that gave g left parse_script_content with re.error
GraphRaises(g) == \E i \in 1..Len(g.nodes) : g.nodes[i].type = "re.error"

RECURSIVE TabsFrom(_, _, _, _)

\* the end of one iteration of the for loop over sections, g being the
\* graph built for the stripped block at index k: set_data and addTab, or
\* the exception of the build leaving the loop
AddTab(sections, k, cfg, acc, section, g) ==
  IF GraphRaises(g) THEN [tabs |-> acc, raised |-> "re.error"]
  ELSE TabsFrom(sections, k + 1, cfg,
                Append(acc, [name |-> SectionName(section, k - 1),
                             nodes |-> g.nodes,
                             connections |-> g.connections]))

\* the for loop over sections, from block k on, acc being the tabs added so
\* far: the tabs of the widget when the loop ends, and the exception that
\* ended it ("None" when it ran to its end)
TabsFrom(sections, k, cfg, acc) ==
  IF k > Len(sections) THEN [tabs |-> acc, raised |-> "None"]
  ELSE IF Strip(sections[k]) = <<>> THEN TabsFrom(sections, k + 1, cfg, acc)
  ELSE AddTab(sections, k, cfg, acc, Strip(sections[k]),
              BuildSection(Strip(sections[k]), cfg))

\* parse_script_content(content): the tabs of the tab widget afterwards and
\* the exception it ended with, "None" for a normal return
ParseScriptContent(text, cfg) ==
  TabsFrom(Split(text, <<NL, "---", NL>>), 1, cfg, <<>>)

---------------------------------------------------------------------------
(* The scripts handed to parse_script_content.  The window is given the    *)
(* editor's text; the model grows that text one line at a time and parses  *)
(* it after each line, so every script of the three families below is      *)
(* parsed: any lines of a conditional script, a trigger line followed by   *)
(* lines of its block (without or with blank lines), any lines of a script *)
(* with sections and headers, and any lines of a script with calls, jumps  *)
(* and headers under either configuration.                                 *)

MaxLines == 5
MaxBranchLines == 7
MaxBlockLines == 6
MaxSplitLines == 5
MaxMixedLines == 4

LnIf == <<"if", " ", "X">>
LnTrue == <<"true", ":">>
LnFalse == <<"false", ":">>
LnEndif == <<"endif">>
LnA == <<"A">>
LnBlank == <<" ">>
LnIfShowVariant == <<"Alice", ":", " ", "If", " ", "Show", " ", "Variant">>
LnTrueUpper == <<" ", "True", ":">>
LnCall == <<"Call", " ", "f">>
LnName == <<"name", ":", " ", "S">>
LnSep == <<"---">>
LnJump == <<"jump", " ", "to", " ", "X">>

CondLines == {LnIf, LnTrue, LnFalse, LnEndif, LnA}
BranchLines == {LnTrue, LnFalse, LnEndif, LnA}
BlockLines == {LnTrue, LnFalse, LnEndif, LnA, LnBlank}
SplitLines == {LnName, LnCall, LnSep, LnBlank}
MixedLines == {LnIfShowVariant, LnTrueUpper, LnCall, LnName, LnJump, LnBlank}
AllLines == CondLines \cup BlockLines \cup SplitLines \cup MixedLines

\* the rules of a configuration file whose second rule matches every line
OrderConfig ==
  [ node_types |->
      << [name |-> "jump", pattern |-> <<<<"pre", "jump">>>>],
         [name |-> "show", pattern |-> <<<<"any*">>>>] >>,
    default_node_type |-> "dialogue",
    ignore_patterns |-> <<PatIgnoreName, PatIgnoreBlank>> ]

\* a pattern that is not a valid regular expression, such as "call("
PatInvalid == <<<<"invalid">>>>

\* the rules of a configuration file whose second pattern does not compile
InvalidConfig ==
  [ node_types |->
      << [name |-> "jump", pattern |-> <<<<"pre", "jump">>>>],
         [name |-> "function_call", pattern |-> PatInvalid] >>,
    default_node_type |-> "dialogue",
    ignore_patterns |-> <<PatIgnoreName, PatIgnoreBlank>> ]

\* node_types_config.json: absent (the fallback is used), or holding
\* OrderConfig or InvalidConfig
ConfigFiles == {"absent", "order", "invalid"}

\* _load_node_types_config(): json.load of the file, the fallback when the
\* file cannot be read; no pattern is compiled here
LoadNodeTypesConfig(file) ==
  CASE file = "absent" -> DefaultConfig
    [] file = "order" -> OrderConfig
    [] file = "invalid" -> InvalidConfig

\* the scripts the model parses
IsDoc(d, file) ==
  \/ /\ file = "absent"
     /\ Len(d) <= MaxLines
     /\ \A i \in 1..Len(d) : d[i] \in CondLines
  \/ /\ file = "absent"
     /\ d # <<>>
     /\ d[1] = LnIf
     /\ \/ Len(d) <= 1 + MaxBranchLines /\ \A i \in 2..Len(d) : d[i] \in BranchLines
        \/ Len(d) <= 1 + MaxBlockLines /\ \A i \in 2..Len(d) : d[i] \in BlockLines
  \/ /\ file = "absent"
     /\ Len(d) <= MaxSplitLines
     /\ \A i \in 1..Len(d) : d[i] \in SplitLines
  \/ /\ Len(d) <= MaxMixedLines
     /\ \A i \in 1..Len(d) : d[i] \in MixedLines

\* the text of a script: its lines joined by newlines
Content(d) == Join(d, <<NL>>)

---------------------------------------------------------------------------
(* The code editor's folding.  The document is a sequence of blocks, one   *)
(* line each, numbered from 0 as QTextBlock.blockNumber() does; a line is  *)
(* a sequence of atoms as in the graph window.                             *)

\* the patterns of compute_fold_ranges
PatFoldFunction == <<<<"ws*">>, <<"lit", "function">>>>
PatFoldCall == <<<<"ws*">>, <<"lit", "call">>>>
PatFoldEnd == <<<<"ws*">>, <<"lit", "end">>>>
PatFoldIf ==
  <<<<"ws*">>, <<"lit", "if">>, <<"ws+">>, <<"lit", "show">>, <<"ws+">>,
    <<"lit", "variant">>>>
PatFoldEndif == <<<<"ws*">>, <<"lit", "endif">>>>
PatFoldName == <<<<"ws*">>, <<"lit", "name">>, <<"ws*">>, <<"lit", ":">>>>
PatFoldSeparator == <<<<"ws*">>, <<"lit", "---">>, <<"ws*">>, <<"eol">>>>

\* the dict d with d[key] = value
DictSet(d, key, value) ==
  [k \in DOMAIN d \cup {key} |-> IF k = key THEN value ELSE d[k]]

\* the empty dict
EmptyDict == [k \in {} |-> 0]

\* mutant: only a separator ends a header's range, another header does not
RECURSIVE HeaderEnd_SeparatorOnly(_, _, _)
HeaderEnd_SeparatorOnly(lines, i, end_line) ==
  IF i >= Len(lines) THEN end_line
  ELSE IF ReMatch(PatFoldSeparator, lines[i + 1]) THEN end_line
  ELSE HeaderEnd_SeparatorOnly(lines, i + 1, i)

\* the inner loop of compute_fold_ranges for a name: header at line_no: the
\* last line before the next separator, the next header or the end
RECURSIVE HeaderEnd(_, _, _)
HeaderEnd(lines, i, end_line) ==
  IF i >= Len(lines) THEN end_line
  ELSE IF ReMatch(PatFoldSeparator, lines[i + 1]) \/ ReMatch(PatFoldName, lines[i + 1])
  THEN end_line
  ELSE HeaderEnd(lines, i + 1, i)

\* a header's range made whether or not a line follows the header
HeaderHasBody_Always(end_line, line_no) == TRUE

\* "if end_line > line_no": a header's range needs a line to fold
HeaderHasBody(end_line, line_no) == end_line > line_no

\* mutant: end and endif close the oldest open line instead of the newest
FoldStep_Fifo(lines, line_no, st) ==
  LET text == lines[line_no + 1]
      s1 == IF ReMatch(PatFoldFunction, text) \/ ReMatch(PatFoldCall, text)
            THEN [st EXCEPT !.func_stack = Append(@, line_no)]
            ELSE st
      s2 == IF ReMatch(PatFoldEnd, text) /\ s1.func_stack # <<>>
            THEN [s1 EXCEPT
                    !.func_stack = Tail(@),
                    !.fold_ranges = DictSet(@, s1.func_stack[1], line_no)]
            ELSE s1
      s3 == IF ReMatch(PatFoldIf, text)
            THEN [s2 EXCEPT !.if_stack = Append(@, line_no)]
            ELSE s2
      s4 == IF ReMatch(PatFoldEndif, text) /\ s3.if_stack # <<>>
            THEN [s3 EXCEPT
                    !.if_stack = Tail(@),
                    !.fold_ranges = DictSet(@, s3.if_stack[1], line_no)]
            ELSE s3
      end_line == HeaderEnd(lines, line_no + 1, line_no)
  IN  IF ReMatch(PatFoldName, text) /\ HeaderHasBody(end_line, line_no)
      THEN [s4 EXCEPT !.fold_ranges = DictSet(@, line_no, end_line)]
      ELSE s4

\* one turn of the loop of compute_fold_ranges, for the block line_no
FoldStep(lines, line_no, st) ==
  LET text == lines[line_no + 1]
      s1 == IF ReMatch(PatFoldFunction, text) \/ ReMatch(PatFoldCall, text)
            THEN [st EXCEPT !.func_stack = Append(@, line_no)]
            ELSE st
      s2 == IF ReMatch(PatFoldEnd, text) /\ s1.func_stack # <<>>
            THEN [s1 EXCEPT
                    !.func_stack = SubSeq(@, 1, Len(@) - 1),
                    !.fold_ranges =
                       DictSet(@, s1.func_stack[Len(s1.func_stack)], line_no)]
            ELSE s1
      s3 == IF ReMatch(PatFoldIf, text)
            THEN [s2 EXCEPT !.if_stack = Append(@, line_no)]
            ELSE s2
      s4 == IF ReMatch(PatFoldEndif, text) /\ s3.if_stack # <<>>
            THEN [s3 EXCEPT
                    !.if_stack = SubSeq(@, 1, Len(@) - 1),
                    !.fold_ranges =
                       DictSet(@, s3.if_stack[Len(s3.if_stack)], line_no)]
            ELSE s3
      end_line == HeaderEnd(lines, line_no + 1, line_no)
  IN  IF ReMatch(PatFoldName, text) /\ HeaderHasBody(end_line, line_no)
      THEN [s4 EXCEPT !.fold_ranges = DictSet(@, line_no, end_line)]
      ELSE s4

RECURSIVE FoldLoop(_, _, _)
FoldLoop(lines, line_no, st) ==
  IF line_no >= Len(lines) THEN st
  ELSE FoldLoop(lines, line_no + 1, FoldStep(lines, line_no, st))

\* compute_fold_ranges(): the new _fold_ranges
ComputeFoldRanges(lines) ==
  FoldLoop(lines, 0,
           [fold_ranges |-> EmptyDict, func_stack |-> <<>>, if_stack |-> <<>>]
          ).fold_ranges

\* compute_fold_ranges without its pruning of _folded
PruneFolded_Keep(old_folded, new_ranges) == old_folded

\* compute_fold_ranges(): the new _folded
PruneFolded(old_folded, new_ranges) ==
  {s \in old_folded : s \in DOMAIN new_ranges}

\* _apply_fold(start, unfold): the visibility of the blocks
ApplyFold(vis, ranges, start, unfold) ==
  IF start \notin DOMAIN ranges \/ ranges[start] <= start THEN vis
  ELSE [n \in 1..Len(vis) |->
          IF n - 1 >= start + 1 /\ n - 1 <= ranges[start] THEN unfold
          ELSE vis[n]]

\* the state CodeEditor.__init__ leaves: one empty block, nothing folded
FoldConstructed ==
  /\ blocks = <<<<>>>>
  /\ visible = <<TRUE>>
  /\ fold_ranges = EmptyDict
  /\ folded = {}

---------------------------------------------------------------------------
(* The code editor's autocomplete.  The text of the editor's block is a    *)
(* sequence of characters, every atom one character.                       *)

\* CodeEditor.jump_to_prefix
jump_to_prefix == <<"J", "u", "m", "p", " ", "T", "o", " ">>

\* the characters _show_autocomplete and _insert_autocomplete_item end a word at
IsDelimiter(c) == c \in {" ", ":", "\t", "\n", "\r"}

\* str.isalpha for one character
IsAlpha(c) ==
  Lower(c) \in {"a", "e", "h", "j", "m", "n", "o", "p", "r", "s", "t", "u"}

\* s.startswith(p)
StartsWith(s, p) == Len(s) >= Len(p) /\ SubSeq(s, 1, Len(p)) = p

\* s.endswith(p)
EndsWith(s, p) ==
  Len(s) >= Len(p) /\ SubSeq(s, Len(s) - Len(p) + 1, Len(s)) = p

\* str.rfind(sep): the greatest index where sep occurs, 0 when absent
RECURSIVE RFindFrom(_, _, _)
RFindFrom(s, sep, from) ==
  IF from < 1 THEN 0
  ELSE IF SubSeq(s, from, from + Len(sep) - 1) = sep THEN from
  ELSE RFindFrom(s, sep, from - 1)

RFind(s, sep) == RFindFrom(s, sep, Len(s) - Len(sep) + 1)

\* the loop "for i in range(cursor_pos - 1, -1, -1)": the number of
\* characters before the word that ends at the cursor (start_pos)
RECURSIVE WordStart(_, _)
WordStart(line, k) ==
  IF k = 0 THEN 0
  ELSE IF IsDelimiter(line[k]) THEN k
  ELSE WordStart(line, k - 1)

\* [x for x in names if x.lower().startswith(word.lower())]
Filter(names, word) ==
  LET Test(x) == StartsWith(LowerStr(x), LowerStr(word))
  IN  SelectSeq(names, Test)

\* prefix.lower().endswith(self.jump_to_prefix.lower())
InJumpContext(line, cur) ==
  EndsWith(LowerStr(SubSeq(line, 1, cur)), LowerStr(jump_to_prefix))

\* names the host supplies
Start == <<"S", "t", "a", "r", "t">>
Shop == <<"S", "h", "o", "p">>
Stop == <<"S", "t", "o", "p">>
Set == <<"S", "e", "t">>
Stan == <<"S", "t", "a", "n">>
Tsu == <<"T", "s", "u">>

\* a main window with all three caches filled
HostFull ==
  [dialog_cache |-> <<Start, Shop>>,
   snil_commands |-> <<Stop, Set>>,
   character_cache |-> <<Stan, Tsu>>]

\* a main window that has found no dialogs and knows no commands
HostCharactersOnly ==
  [dialog_cache |-> <<>>,
   snil_commands |-> <<>>,
   character_cache |-> <<Stan, Tsu>>]

\* CodeEditor.parent_window: "None" until setup_autocomplete(parent_window)
\* is called, then the main window, named by its key
MainWindows == [full |-> HostFull, characters |-> HostCharactersOnly]

ParentWindows == {"None"} \cup DOMAIN MainWindows

\* getattr(self.parent_window, 'dialog_cache', []) and the like
dialog_cache == MainWindows[parent_window].dialog_cache

snil_commands == MainWindows[parent_window].snil_commands

character_cache == MainWindows[parent_window].character_cache

\* the popup as a value: its items, current row and visibility, with the
\* editor's flag
Popup ==
  [items |-> popup_items, row |-> popup_row, visible |-> popup_visible,
   active |-> is_autocomplete_active]

\* update_items without its clear(): the new items are added to the old ones
update_items_NoClear(p, items) ==
  [p EXCEPT !.items = p.items \o items,
            !.row = IF p.items \o items # <<>> THEN 0 ELSE -1]

\* AutocompletePopup.update_items(items)
update_items(p, items) ==
  [p EXCEPT !.items = items, !.row = IF items # <<>> THEN 0 ELSE -1]

\* AutocompletePopup.show_popup(position)
show_popup(p) == IF p.items # <<>> THEN [p EXCEPT !.visible = TRUE] ELSE p

\* AutocompletePopup.hide_popup()
hide_popup(p) == [p EXCEPT !.visible = FALSE]

\* _show_autocomplete(): the popup and the flag it leaves
ShowAutocomplete(line, cur, p) ==
  IF parent_window = "None" THEN p
  ELSE IF InJumpContext(line, cur)
  THEN IF dialog_cache # <<>>
       THEN [show_popup(update_items(p, dialog_cache)) EXCEPT !.active = TRUE]
       ELSE p
  ELSE IF ~(cur > 0 /\ cur <= Len(line)) THEN p
  ELSE
    LET start_pos == WordStart(line, cur)
        current_word == SubSeq(line, start_pos + 1, cur)
        is_empty_line == Strip(SubSeq(line, 1, start_pos)) = <<>>
        filtered_commands == Filter(snil_commands, current_word)
        filtered_chars == Filter(character_cache, current_word)
        p1 == IF is_empty_line /\ filtered_commands # <<>>
              THEN [show_popup(update_items(p, filtered_commands))
                      EXCEPT !.active = TRUE]
              ELSE p
    IN  IF ~(current_word # <<>> /\ IsAlpha(current_word[1])
             /\ Len(current_word) >= 2)
        THEN p
        ELSE IF filtered_chars = <<>> THEN p1
        ELSE IF p1.active
        THEN update_items(p1, p1.items \o filtered_chars)
        ELSE [show_popup(update_items(p1, filtered_chars))
                EXCEPT !.active = TRUE]

\* _insert_autocomplete_item(item_text): the line, the cursor and the popup
\* it leaves.  The edit is made through a copy of the text cursor, so the
\* editor's own cursor moves only as the document's change moves it.
InsertAutocompleteItem(line, cur, p, item_text) ==
  IF ~p.active THEN [line |-> line, cursor |-> cur, popup |-> p]
  ELSE
    LET prefix_pos == RFind(LowerStr(line), LowerStr(jump_to_prefix))
        start_pos == IF prefix_pos # 0
                     THEN prefix_pos - 1 + Len(jump_to_prefix)
                     ELSE WordStart(line, cur)
        end_pos == IF prefix_pos # 0 THEN Len(line) ELSE cur
    IN  [line |-> SubSeq(line, 1, start_pos) \o item_text
                    \o SubSeq(line, end_pos + 1, Len(line)),
         cursor |-> IF cur < start_pos THEN cur ELSE start_pos + Len(item_text),
         popup |-> hide_popup([p EXCEPT !.active = FALSE])]

\* the state CodeEditor.__init__ leaves: an empty document, no popup shown
EditorConstructed ==
  /\ current_line = <<>>
  /\ cursor_pos = 0
  /\ is_autocomplete_active = FALSE
  /\ popup_items = <<>>
  /\ popup_row = -1
  /\ popup_visible = FALSE
  /\ timer_active = FALSE
  /\ typed = 0

\* the most texts put into the block: characters typed, a paste, a chosen item
MaxTyped == 4

\* keys: characters, Ctrl+V with the jump prefix on the clipboard, Home,
\* the keys the popup handles, and a modifier

CharKeys == {"S", "t", " ", "1"}

TextKeys == CharKeys \cup {"Paste"}

NavigationKeys == {"Up", "Down", "Return", "Escape"}

ModifierKeys == {"Shift"}

Keys == TextKeys \cup NavigationKeys \cup ModifierKeys \cup {"Home"}

\* the text a key inserts
KeyText(key) == IF key = "Paste" THEN jump_to_prefix ELSE <<key>>

SetPopup(p) ==
  /\ popup_items' = p.items
  /\ popup_row' = p.row
  /\ popup_visible' = p.visible
  /\ is_autocomplete_active' = p.active

\* AutocompletePopup.keyPressEvent(event) for Up, Down, Return and Escape,
\* with the slot _insert_autocomplete_item that item_selected calls
PopupKeyPress(key) ==
  LET p == Popup
      count == Len(p.items)
      same == [line |-> current_line, cursor |-> cursor_pos, popup |-> p]
      ins == InsertAutocompleteItem(current_line, cursor_pos, p,
                                    p.items[p.row + 1])
  IN  CASE key = "Up" ->
             [same EXCEPT !.popup.row =
                IF p.row > 0 THEN p.row - 1 ELSE count - 1]
        [] key = "Down" ->
             [same EXCEPT !.popup.row =
                IF p.row < count - 1 THEN p.row + 1 ELSE 0]
        [] key = "Return" ->
             IF p.row >= 0 THEN [ins EXCEPT !.popup = hide_popup(ins.popup)]
             ELSE same
        [] key = "Escape" -> [same EXCEPT !.popup = hide_popup(p)]

\* CodeEditor.keyPressEvent(event).  The document has one block, so Up, Down
\* and Return are pressed only while the popup takes them.
keyPressEvent(key) ==
  LET taken == is_autocomplete_active /\ parent_window # "None" /\ popup_visible
  IN  IF taken /\ key \in NavigationKeys
      THEN LET r == PopupKeyPress(key)
           IN  /\ key = "Return" => typed < MaxTyped
               /\ current_line' = r.line
               /\ cursor_pos' = r.cursor
               /\ SetPopup(r.popup)
               /\ typed' = IF key = "Return" THEN typed + 1 ELSE typed
               /\ UNCHANGED timer_active
      ELSE /\ key \notin {"Up", "Down", "Return"}
           /\ key \in TextKeys => typed < MaxTyped
           /\ SetPopup(IF taken /\ key \notin ModifierKeys
                       THEN [hide_popup(Popup) EXCEPT !.active = FALSE]
                       ELSE Popup)
           /\ timer_active' = (key \notin ModifierKeys \/ timer_active)
           /\ IF key \in TextKeys
              THEN /\ current_line' =
                        SubSeq(current_line, 1, cursor_pos) \o KeyText(key)
                          \o SubSeq(current_line, cursor_pos + 1,
                                    Len(current_line))
                   /\ cursor_pos' = cursor_pos + Len(KeyText(key))
                   /\ typed' = typed + 1
              ELSE /\ cursor_pos' =
                        IF key = "Home" THEN 0 ELSE cursor_pos
                   /\ UNCHANGED <<current_line, typed>>

\* the most items the popup holds (a popup hidden by Escape keeps its items,
\* and later evaluations add to them)
MaxRows == 4

\* autocomplete_timer.timeout: _show_autocomplete()
show_autocomplete ==
  /\ timer_active
  /\ Len(ShowAutocomplete(current_line, cursor_pos, Popup).items) <= MaxRows
  /\ timer_active' = FALSE
  /\ SetPopup(ShowAutocomplete(current_line, cursor_pos, Popup))
  /\ UNCHANGED <<current_line, cursor_pos, typed>>

\* itemClicked on the item of one row: _on_item_clicked(item)
on_item_clicked(row) ==
  /\ popup_visible
  /\ row < Len(popup_items)
  /\ typed < MaxTyped
  /\ LET r == InsertAutocompleteItem(current_line, cursor_pos, Popup,
                                     popup_items[row + 1])
     IN  /\ current_line' = r.line
         /\ cursor_pos' = r.cursor
         /\ SetPopup(hide_popup(r.popup))
  /\ typed' = typed + 1
  /\ UNCHANGED timer_active

InitEditor ==
  /\ doc = <<>>
  /\ config = "absent"
  /\ tabs = <<>>
  /\ raised = "None"
  /\ parent_window \in ParentWindows
  /\ EditorConstructed
  /\ FoldConstructed

NextEditor ==
  \/ \E key \in Keys : keyPressEvent(key) /\ UNCHANGED <<graph_vars, parent_window, fold_vars>>
  \/ show_autocomplete /\ UNCHANGED <<graph_vars, parent_window, fold_vars>>
  \/ \E row \in 0..(MaxRows - 1) :
       on_item_clicked(row) /\ UNCHANGED <<graph_vars, parent_window, fold_vars>>

SpecEditor == InitEditor /\ [][NextEditor]_vars

---------------------------------------------------------------------------
(* The code editor's folding: edits of the document and clicks in the gutter *)

\* the most blocks of a document
MaxFoldLines == 4

LnEnd == <<"end">>
LnIfShow == <<"If", " ", "Show", " ", "Variant">>

\* the lines an edit puts into the document
FoldLines == {LnCall, LnEnd, LnIfShow, LnEndif, LnName, LnSep}

\* the slots textChanged and blockCountChanged: compute_fold_ranges()
compute_fold_ranges ==
  /\ fold_ranges' = ComputeFoldRanges(blocks')
  /\ folded' = PruneFolded(folded, fold_ranges')

\* an edit that puts one new line before block k (after the last block when
\* k is the number of blocks), followed by the recomputation it triggers
insert_line(k, line) ==
  /\ Len(blocks) < MaxFoldLines
  /\ k <= Len(blocks)
  /\ blocks' = SubSeq(blocks, 1, k) \o <<line>> \o SubSeq(blocks, k + 1, Len(blocks))
  /\ visible' = SubSeq(visible, 1, k) \o <<TRUE>> \o SubSeq(visible, k + 1, Len(visible))
  /\ compute_fold_ranges

\* an edit that removes the blocks a..b, followed by the recomputation it
\* triggers; a document always keeps one block
remove_lines(a, b) ==
  /\ a <= b
  /\ b < Len(blocks)
  /\ IF a = 0 /\ b = Len(blocks) - 1
     THEN /\ blocks' = <<<<>>>>
          /\ visible' = <<visible[1]>>
     ELSE /\ blocks' = SubSeq(blocks, 1, a) \o SubSeq(blocks, b + 2, Len(blocks))
          /\ visible' = SubSeq(visible, 1, a) \o SubSeq(visible, b + 2, Len(visible))
  /\ compute_fold_ranges

\* toggle_fold_at_line that folds and never unfolds
ToggleFolded_OnlyAdd(old_folded, ranges, block_number) ==
  IF block_number \in DOMAIN ranges THEN old_folded \cup {block_number}
  ELSE old_folded

\* toggle_fold_at_line without its test for a fold range at the line
ToggleFolded_NoKeyCheck(old_folded, ranges, block_number) ==
  IF block_number \in old_folded THEN old_folded \ {block_number}
  ELSE old_folded \cup {block_number}

\* toggle_fold_at_line(block_number): the new _folded
ToggleFolded(old_folded, ranges, block_number) ==
  IF block_number \notin DOMAIN ranges THEN old_folded
  ELSE IF block_number \in old_folded THEN old_folded \ {block_number}
  ELSE old_folded \cup {block_number}

\* toggle_fold_at_line(block_number): the new visibility of the blocks
ToggleVisible(vis, old_folded, ranges, block_number) ==
  IF block_number \notin DOMAIN ranges THEN vis
  ELSE ApplyFold(vis, ranges, block_number, block_number \in old_folded)

\* toggle_fold_at_line(block_number), called by a click in the gutter
toggle_fold_at_line(block_number) ==
  /\ visible' = ToggleVisible(visible, folded, fold_ranges, block_number)
  /\ folded' = ToggleFolded(folded, fold_ranges, block_number)
  /\ UNCHANGED <<blocks, fold_ranges>>

InitFold ==
  /\ doc = <<>>
  /\ config = "absent"
  /\ tabs = <<>>
  /\ raised = "None"
  /\ parent_window = "None"
  /\ EditorConstructed
  /\ FoldConstructed

NextFold ==
  \/ \E k \in 0..MaxFoldLines : \E line \in FoldLines :
       insert_line(k, line) /\ UNCHANGED <<graph_vars, editor_vars>>
  \/ \E a, b \in 0..(MaxFoldLines - 1) :
       remove_lines(a, b) /\ UNCHANGED <<graph_vars, editor_vars>>
  \/ \E block_number \in 0..MaxFoldLines :
       toggle_fold_at_line(block_number) /\ UNCHANGED <<graph_vars, editor_vars>>

SpecFold == InitFold /\ [][NextFold]_vars
---------------------------------------------------------------------------
(* The graph window: a script is parsed, one more line at a time *)

Init ==
  /\ doc = <<>>
  /\ config \in ConfigFiles
  /\ tabs = <<>>
  /\ raised = "None"
  /\ parent_window = "None"
  /\ EditorConstructed
  /\ FoldConstructed

\* parse_script_content(content), content being the text with one more line
parse_script_content(line) ==
  /\ IsDoc(Append(doc, line), config)
  /\ doc' = Append(doc, line)
  /\ LET out == ParseScriptContent(Content(doc'), LoadNodeTypesConfig(config))
     IN  tabs' = out.tabs /\ raised' = out.raised
  /\ UNCHANGED <<config, editor_vars, fold_vars>>

Next == \E line \in AllLines : parse_script_content(line)

Spec == Init /\ [][Next]_vars

---------------------------------------------------------------------------
(* Properties of the graph builder *)

Ids(tab) == {tab.nodes[i].id : i \in 1..Len(tab.nodes)}

ConnSet(tab) == {tab.connections[i] : i \in 1..Len(tab.connections)}

Edge(i, j) == <<NodeId(i), NodeId(j)>>

\* n copies of line l
Rep(l, n) == [i \in 1..n |-> l]

Contents(tab) == [i \in 1..Len(tab.nodes) |-> tab.nodes[i].content]

IdList(tab) == [i \in 1..Len(tab.nodes) |-> tab.nodes[i].id]

\* C1: in every section the ids of the nodes are pairwise distinct,
\* whatever conditional blocks and branch lines the section holds.
C1_IdsPairwiseDistinct ==
  \A t \in 1..Len(tabs) :
    \A i, j \in 1..Len(tabs[t].nodes) :
      i # j => tabs[t].nodes[i].id # tabs[t].nodes[j].id

\* a section with two conditional runs, one of them with a branch node
C1_Witness ==
  \E t \in 1..Len(tabs) :
    LET n == tabs[t].nodes
    IN  /\ Cardinality({i \in 1..Len(n) : n[i].type = "if_show_variant"}) >= 2
        /\ \E i, j \in 1..Len(n) :
             /\ n[i].type = "if_show_variant"
             /\ n[j].type = "dialogue"
             /\ <<n[i].id, n[j].id>> \in ConnSet(tabs[t])

\* C2: both endpoints of every edge of a section are ids of nodes of that
\* section.
C2_EdgeReferentialIntegrity ==
  \A t \in 1..Len(tabs) :
    \A e \in ConnSet(tabs[t]) : e[1] \in Ids(tabs[t]) /\ e[2] \in Ids(tabs[t])

\* a section with an edge inside a block, an edge from a pending end node
\* and an edge from prev_node
C2_Witness ==
  /\ doc = <<LnIf, LnTrue, LnA, LnEndif, LnA, LnA>>
  /\ Len(tabs) = 1
  /\ ConnSet(tabs[1]) = {Edge(0, 1), Edge(1, 2), Edge(0, 2), Edge(2, 3)}

\* the script: trigger, first marker, nt plain lines, second marker, nf
\* plain lines, endif, one plain line
FanInDoc(m1, nt, m2, nf) ==
  <<LnIf, m1>> \o Rep(LnA, nt) \o <<m2>> \o Rep(LnA, nf) \o <<LnEndif, LnA>>

\* the edges of the fan-in of a block with nt true nodes and nf false nodes
FanInEdges(nt, nf) ==
  {Edge(0, 1), Edge(0, nt + 1), Edge(nt, nt + nf + 1), Edge(nt + nf, nt + nf + 1)}
  \cup {Edge(i, i + 1) : i \in 1..(nt - 1)}
  \cup {Edge(i, i + 1) : i \in (nt + 1)..(nt + nf - 1)}

\* C3: a conditional block with both branches non-empty, followed by a
\* normal line C, gives the nodes condition, true nodes, false nodes, C and
\* exactly the edges condition -> first true, condition -> first false, the
\* chains, last true -> C and last false -> C; there is no edge
\* condition -> C.  (nt, nf are the numbers of true and false lines.)
C3_ConditionalFanIn ==
  \A nt, nf \in 1..Len(doc) :
    (\/ doc = FanInDoc(LnTrue, nt, LnFalse, nf)
     \/ doc = FanInDoc(LnFalse, nf, LnTrue, nt))
    => /\ Len(tabs) = 1
       /\ Contents(tabs[1]) = <<LnIf>> \o Rep(LnA, nt + nf + 1)
       /\ IdList(tabs[1]) = [i \in 1..(nt + nf + 2) |-> NodeId(i - 1)]
       /\ tabs[1].nodes[1].type = "if_show_variant"
       /\ ConnSet(tabs[1]) = FanInEdges(nt, nf)
       /\ Len(tabs[1].connections) = Cardinality(FanInEdges(nt, nf))
       /\ Edge(0, nt + nf + 1) \notin ConnSet(tabs[1])

\* the block of the example with a chain of two nodes in the true branch
C3_Witness ==
  /\ doc = FanInDoc(LnTrue, 2, LnFalse, 1)
  /\ Len(tabs) = 1
  /\ tabs[1].connections = <<Edge(0, 1), Edge(1, 2), Edge(0, 3), Edge(2, 4), Edge(3, 4)>>

\* the scripts: trigger, a block with n plain lines in one branch and no
\* node in the other (its marker absent, or present with k blank lines),
\* endif, one plain line
OneBranchDoc(d, n) ==
  \/ \E m \in {LnTrue, LnFalse} :
       d = <<LnIf, m>> \o Rep(LnA, n) \o <<LnEndif, LnA>>
  \/ \E m1, m2 \in {LnTrue, LnFalse} : \E k \in 0..Len(d) :
       /\ m1 # m2
       /\ \/ d = <<LnIf, m1>> \o Rep(LnA, n) \o <<m2>> \o Rep(LnBlank, k)
                 \o <<LnEndif, LnA>>
          \/ d = <<LnIf, m1>> \o Rep(LnBlank, k) \o <<m2>> \o Rep(LnA, n)
                 \o <<LnEndif, LnA>>

\* C4: when exactly one branch of a conditional block has no nodes and a
\* normal line C follows the block, C receives one edge from the tail of
\* the non-empty branch and one from the condition node, and the condition
\* node's only other edge goes to the head of the non-empty branch.
\* (n is the number of nodes of the non-empty branch; C is node n + 1.)
C4_EmptyBranchJoin ==
  \A n \in 1..Len(doc) :
    OneBranchDoc(doc, n)
    => /\ Len(tabs) = 1
       /\ Contents(tabs[1]) = <<LnIf>> \o Rep(LnA, n + 1)
       /\ ConnSet(tabs[1]) =
            {Edge(0, 1), Edge(n, n + 1), Edge(0, n + 1)}
            \cup {Edge(i, i + 1) : i \in 1..(n - 1)}
       /\ Len(tabs[1].connections) = n + 2

\* the true branch has a node, the false branch only a blank line
C4_Witness ==
  /\ doc = <<LnIf, LnTrue, LnA, LnFalse, LnBlank, LnEndif, LnA>>
  /\ Len(tabs) = 1
  /\ ConnSet(tabs[1]) = {Edge(0, 1), Edge(1, 2), Edge(0, 2)}

\* the configuration in force
Cfg == LoadNodeTypesConfig(config)

\* C5: no node is created for a line that matches an ignore pattern, on
\* the main line and inside the branches of a conditional block.
C5_IgnorePrecedence ==
  \A t \in 1..Len(tabs) :
    \A i \in 1..Len(tabs[t].nodes) :
      ~Ignored(tabs[t].nodes[i].content, Cfg.ignore_patterns)

\* C6: no node of any section has type function_call: a call line gives a
\* node of type function, on the main line and inside a branch.
C6_AliasNormalization ==
  \A t \in 1..Len(tabs) :
    \A i \in 1..Len(tabs[t].nodes) : tabs[t].nodes[i].type # "function_call"

\* the rules, by index, whose pattern matches the line
MatchingRules(line) ==
  {k \in 1..Len(Cfg.node_types) :
     /\ IsValidPattern(Cfg.node_types[k].pattern)
     /\ ReMatch(Cfg.node_types[k].pattern, line)}

\* the name of the first rule in list order that matches, or the default
FirstRuleName(line) ==
  IF MatchingRules(line) = {} THEN Cfg.default_node_type
  ELSE Cfg.node_types[CHOOSE k \in MatchingRules(line) :
                        \A j \in MatchingRules(line) : k <= j].name

\* function_call is an alias of function
Alias(type) == IF type = "function_call" THEN "function" ELSE type

C8_DefaultSectionName ==
  \A t \in 1..Len(tabs) :
    (Len(tabs[t].name) = 3 /\ tabs[t].name[1] = "Section")
    => tabs[t].name = <<"Section", " ", ToString(t)>>

\* line k of script d is a separator occurrence: a "---" line that is
\* neither the first nor the last line and does not directly follow a
\* separator occurrence (occurrences of "\n---\n" do not overlap)
RECURSIVE IsSeparator(_, _)
IsSeparator(d, k) ==
  /\ 1 < k
  /\ k < Len(d)
  /\ d[k] = LnSep
  /\ ~IsSeparator(d, k - 1)

\* the blocks of script d from line k on, each a sequence of lines
RECURSIVE BlocksFrom(_, _, _)
BlocksFrom(d, k, cur) ==
  IF k > Len(d) THEN <<cur>>
  ELSE IF IsSeparator(d, k) THEN <<cur>> \o BlocksFrom(d, k + 1, <<>>)
  ELSE BlocksFrom(d, k + 1, Append(cur, d[k]))

\* the blocks with a line that is not blank, in document order
RECURSIVE NonEmpty(_)
NonEmpty(bs) ==
  IF bs = <<>> THEN <<>>
  ELSE IF \E i \in 1..Len(Head(bs)) : Strip(Head(bs)[i]) # <<>>
  THEN <<Head(bs)>> \o NonEmpty(Tail(bs))
  ELSE NonEmpty(Tail(bs))

EmittedBlocks == NonEmpty(BlocksFrom(doc, 1, <<>>))

StrippedLines(block) == {Strip(block[i]) : i \in 1..Len(block)}

\* one section per non-empty block
C9_OneSectionPerBlock == Len(tabs) = Len(EmittedBlocks)

\* every line of every node's content is a line of the section's own block
C9_NodesFromOwnBlock ==
  \A t \in 1..Len(tabs) :
    t <= Len(EmittedBlocks)
    => \A i \in 1..Len(tabs[t].nodes) :
         LET ls == Split(tabs[t].nodes[i].content, <<NL>>)
         IN  \A j \in 1..Len(ls) : ls[j] \in StrippedLines(EmittedBlocks[t])

\* the counter restarts: the first node of every section is n_0
C9_CounterRestarts ==
  \A t \in 1..Len(tabs) :
    tabs[t].nodes # <<>> => tabs[t].nodes[1].id = NodeId(0)

\* a name: header names its section
C9_HeaderNames ==
  \A t \in 1..Len(tabs) :
    (t <= Len(EmittedBlocks) /\ LnName \in StrippedLines(EmittedBlocks[t]))
    => tabs[t].name = <<"S">>

\* a name: header does not become a node
C9_HeaderNoNode ==
  \A t \in 1..Len(tabs) :
    \A i \in 1..Len(tabs[t].nodes) : tabs[t].nodes[i].content # LnName

\* C9: one section per block of the script, split on the separator, whose
\* trimmed text is non-empty, in document order; the nodes of a section
\* come from the lines of its own block, numbered from n_0; a name: header
\* supplies the section name without becoming a node.
C9_SectionSplit ==
  /\ C9_OneSectionPerBlock
  /\ C9_NodesFromOwnBlock
  /\ C9_CounterRestarts
  /\ C9_HeaderNames
  /\ C9_HeaderNoNode

---------------------------------------------------------------------------
(* Properties of the autocomplete *)

\* the members of a list of names
Names(list) == {list[i] : i \in 1..Len(list)}

\* the text before the cursor is a jump prefix followed by a partly typed
\* target, the cursor being at the end of the line
JumpPartial ==
  LET start_pos == WordStart(current_line, cursor_pos)
  IN  /\ cursor_pos = Len(current_line)
      /\ start_pos < cursor_pos
      /\ InJumpContext(current_line, start_pos)

\* the partly typed target
Partial == SubSeq(current_line, WordStart(current_line, cursor_pos) + 1, cursor_pos)

\* the line with the text after the jump prefix replaced by an item
TargetReplaced(item_text) ==
  SubSeq(current_line, 1, WordStart(current_line, cursor_pos)) \o item_text

\* C10: when the text before the cursor is the jump prefix followed by a
\* partly typed target (as in 'Jump To St', cursor at the end), an evaluation
\* offers jump-target names, never command or character names, and shows
\* them when one of them starts with the partial text; choosing an item then
\* replaces exactly the partial text typed after the prefix.
C10_JumpContextOfPartialTarget ==
  [][ /\ ( /\ show_autocomplete
           /\ parent_window # "None"
           /\ JumpPartial )
        => /\ Filter(dialog_cache, Partial) # <<>> => popup_visible'
           /\ popup_visible' => Names(popup_items') \subseteq Names(dialog_cache)
      /\ \A row \in 0..(MaxRows - 1) :
           (on_item_clicked(row) /\ JumpPartial)
             => current_line' = TargetReplaced(popup_items[row + 1])
    ]_vars

\* the start of the span of the query at the cursor: the end of the jump
\* prefix for a jump context, the start of the current word otherwise
SpanStart ==
  IF InJumpContext(current_line, cursor_pos) THEN cursor_pos
  ELSE WordStart(current_line, cursor_pos)

\* the line with the span from SpanStart to the cursor replaced by an item
SpanReplaced(item_text) ==
  SubSeq(current_line, 1, SpanStart) \o item_text
    \o SubSeq(current_line, cursor_pos + 1, Len(current_line))

\* C11: choosing an item, by a click or by Return, replaces exactly the span
\* of the query (from the end of the jump prefix, or from the start of the
\* current word, to the cursor) with the item's text; the characters before
\* the span and the characters after the cursor stay as they were.
C11_ExactReplacement ==
  [][ /\ \A row \in 0..(MaxRows - 1) :
           on_item_clicked(row)
             => current_line' = SpanReplaced(popup_items[row + 1])
      /\ (keyPressEvent("Return") /\ popup_row >= 0)
           => current_line' = SpanReplaced(popup_items[popup_row + 1])
    ]_vars

\* the word that ends at the cursor
CurrentWord ==
  SubSeq(current_line, WordStart(current_line, cursor_pos) + 1, cursor_pos)

\* the text before the current word is empty or blank, the word starts with
\* a letter and has two characters or more, and a host command starts with it
CommandContext ==
  /\ parent_window # "None"
  /\ Strip(SubSeq(current_line, 1, WordStart(current_line, cursor_pos))) = <<>>
  /\ Len(CurrentWord) >= 2
  /\ IsAlpha(CurrentWord[1])
  /\ Filter(snil_commands, CurrentWord) # <<>>

\* C12: an evaluation in a command context offers the host commands that
\* start with the current word, in host-list order, followed by the
\* character names that start with it, and nothing else; the comparison is
\* case-insensitive and the filter word is the current word.
C12_CommandContext ==
  [][ (show_autocomplete /\ CommandContext)
        => /\ popup_visible'
           /\ popup_items' = Filter(snil_commands, CurrentWord)
                               \o Filter(character_cache, CurrentWord)
    ]_vars

\* the word St on an empty line was evaluated: a command, then a character
C12_Witness ==
  /\ current_line = <<"S", "t">>
  /\ cursor_pos = 2
  /\ popup_visible
  /\ popup_items = <<Stop, Stan>>

---------------------------------------------------------------------------
(* Properties of the folding *)

\* C13: when s is a key of the fold ranges, folded or not, and an edit
\* removes the lines s..e of its range, the recomputation the edit triggers
\* leaves a mapping without the key s and a folded set without s.
C13_FoldPruning ==
  [][ \A s \in DOMAIN fold_ranges :
        remove_lines(s, fold_ranges[s])
          => s \notin DOMAIN fold_ranges' /\ s \notin folded'
    ]_vars

\* C14: whatever edits (each with its recomputation) and gutter clicks on
\* whatever lines have happened, every folded start line is a key of the
\* current fold ranges.
C14_FoldedSubsetOfKeys == folded \subseteq DOMAIN fold_ranges

\* a document with a folded range and another range that is not folded
C14_Witness ==
  /\ folded # {}
  /\ \E s \in DOMAIN fold_ranges : s \notin folded
  /\ \E n \in 1..Len(visible) : ~visible[n]

\* C15: for a start line s that is a key of the current fold ranges, two
\* calls toggle_fold_at_line(s) with no recomputation between them leave the
\* folded set as it was: s is in it again or out of it again, and no other
\* line's membership has changed.
C15_FoldRoundTrip ==
  \A s \in DOMAIN fold_ranges :
    ToggleFolded(ToggleFolded(folded, fold_ranges, s), fold_ranges, s) = folded

\* two ranges are folded, and one toggle takes exactly one of them out
C15_Witness ==
  /\ Cardinality(folded) >= 2
  /\ \E s \in folded : ToggleFolded(folded, fold_ranges, s) = folded \ {s}

\* C16: toggle_fold_at_line(n) for a line n that is not a key of the current
\* fold ranges changes nothing: not the folded set, not the fold ranges, not
\* the visibility of any line.
C16_ToggleOffKeyIsNoOp ==
  [][ \A n \in 0..MaxFoldLines :
        (toggle_fold_at_line(n) /\ n \notin DOMAIN fold_ranges)
          => UNCHANGED <<folded, fold_ranges, visible>>
    ]_vars

\* a hidden line inside a folded range that is not itself a start line
C16_Witness ==
  /\ folded # {}
  /\ \E n \in 0..(Len(blocks) - 1) :
       n \notin DOMAIN fold_ranges /\ ~visible[n + 1]

\* C17: every entry start -> end of the fold ranges computed for a document
\* has end > start, whether it comes from function/call..end, from
\* If Show Variant..endif or from a name: header.
C17_EndAfterStart == \A s \in DOMAIN fold_ranges : fold_ranges[s] > s

\* a header range around a call..end range, with an If Show Variant line
\* that no endif closes
C17_Witness ==
  /\ blocks = <<LnName, LnCall, LnEnd, LnIfShow>>
  /\ fold_ranges = DictSet(DictSet(EmptyDict, 0, 3), 1, 2)



---------------------------------------------------------------------------
(* Properties of the graph builder: configuration and conditional runs *)

\* C18: a configuration whose patterns include one that is not a valid
\* regular expression is rejected when it is loaded, so building a graph
\* never fails because of a pattern: no parse ends with an exception.
C18_BuildNeverFailsOnPattern ==
  raised = "None"


\* the lines of the only section of a script without separators, as the
\* pre-scan reads them
SectionLines ==
  LET ls == Split(Strip(Content(doc)), <<NL>>)
  IN  [i \in 1..Len(ls) |-> Strip(ls[i])]

IsEndif(line) == LowerStr(line) = <<"endif">>

\* the trigger lines with no endif line after them
OpenTriggers(ls) ==
  {q \in 1..Len(ls) :
     IsTrigger(ls[q]) /\ \A j \in (q + 1)..Len(ls) : ~IsEndif(ls[j])}

FirstOpenTrigger(ls) ==
  CHOOSE q \in OpenTriggers(ls) : \A r \in OpenTriggers(ls) : q <= r

\* "true" or "false" for a branch marker line, "none" for any other line
Marker(line) ==
  IF LowerStr(line) = <<"true", ":">> THEN "true"
  ELSE IF LowerStr(line) = <<"false", ":">> THEN "false"
  ELSE "none"

\* where line j of a block opened at q goes: the branch of the last marker
\* between q and j, the condition content ("none") when there is no marker
Destination(ls, q, j) ==
  LET ms == {m \in (q + 1)..(j - 1) : Marker(ls[m]) # "none"}
  IN  IF ms = {} THEN "none"
      ELSE Marker(ls[CHOOSE m \in ms : \A r \in ms : r <= m])

\* the lines after q that are no markers and go to dest, from line j on;
\* blank lines are kept only in the condition content
RECURSIVE RoutedTo(_, _, _, _)
RoutedTo(ls, q, dest, j) ==
  IF j > Len(ls) THEN <<>>
  ELSE IF /\ Marker(ls[j]) = "none"
          /\ Destination(ls, q, j) = dest
          /\ (dest = "none" \/ ls[j] # <<>>)
       THEN <<ls[j]>> \o RoutedTo(ls, q, dest, j + 1)
       ELSE RoutedTo(ls, q, dest, j + 1)

\* the contents of the nodes of a block opened at q and closed by the end
\* of the section: the condition node, the true branch, the false branch
ImplicitBlockContents(ls, q) ==
  <<Join(<<ls[q]>> \o RoutedTo(ls, q, "none", q + 1), <<NL>>)>>
  \o RoutedTo(ls, q, "true", q + 1)
  \o RoutedTo(ls, q, "false", q + 1)

\* the nodes of the main line before line q
NodesBefore(ls, q) ==
  BuildFrom(PreScan(SubSeq(ls, 1, q - 1), 1), 1, BuildInit, Cfg).nodes

\* the section's nodes are those of the lines before the open trigger q
\* followed by the nodes of one block holding every line from q on
ConsumedByBlock(ls, q) ==
  /\ Len(tabs) = 1
  /\ LET pre == Len(NodesBefore(ls, q))
         expected == ImplicitBlockContents(ls, q)
     IN  /\ Len(tabs[1].nodes) = pre + Len(expected)
         /\ tabs[1].nodes[pre + 1].type = "if_show_variant"
         /\ \A i \in 1..Len(expected) :
              tabs[1].nodes[pre + i].content = expected[i]

\* C19: when a trigger line has no later endif line in its section, the
\* build does not raise, and every line from the trigger to the end of the
\* section is consumed by one conditional block (condition content or a
\* branch): none of them becomes a main-line node.
C19_MissingEndif ==
  OpenTriggers(SectionLines) # {}
  => /\ raised = "None"
     /\ ConsumedByBlock(SectionLines, FirstOpenTrigger(SectionLines))

\* the routing part of C19 alone, for the builds that return
C19_ConsumedWhenBuilt ==
  (OpenTriggers(SectionLines) # {} /\ raised = "None")
  => ConsumedByBlock(SectionLines, FirstOpenTrigger(SectionLines))

\* a block left open after a main-line node, with a condition line and a
\* branch line, is built
C19_BuiltOpenBlock ==
  /\ doc = <<LnA, LnIf, LnA, LnTrue, LnA>>
  /\ raised = "None"
  /\ Len(tabs) = 1
  /\ Len(tabs[1].nodes) = 3


\* C20: every conditional run that is not the first element of its section
\* has an edge from a node before it to its condition node, also when the
\* element just before the run is itself a conditional run: only a
\* condition node that is the first node of its section has no incoming edge.
C20_EdgeIntoEveryLaterRun ==
  \A t \in 1..Len(tabs) :
    \A i \in 2..Len(tabs[t].nodes) :
      tabs[t].nodes[i].type = "if_show_variant"
      => \E j \in 1..(i - 1) :
           <<tabs[t].nodes[j].id, tabs[t].nodes[i].id>> \in ConnSet(tabs[t])


---------------------------------------------------------------------------
(* Properties of the graph builder: joins, routing, ids and edge order *)

\* the positions in the connection list of the edges into node j of tab
InEdges(tab, j) ==
  {e \in 1..Len(tab.connections) : tab.connections[e][2] = tab.nodes[j].id}

\* the positions of the condition nodes of tab before node j
RunsBefore(tab, j) ==
  {c \in 1..(j - 1) : tab.nodes[c].type = "if_show_variant"}

\* C21: after a conditional run the pending join sources are that run's
\* two entries only, so a node that is no condition node receives at most
\* two edges, and none of them from a node before the condition node of
\* the last run that precedes it.
C21_JoinFromLastRunOnly ==
  \A t \in 1..Len(tabs) :
    \A j \in 1..Len(tabs[t].nodes) :
      tabs[t].nodes[j].type # "if_show_variant"
      => /\ Cardinality(InEdges(tabs[t], j)) <= 2
         /\ \A e \in InEdges(tabs[t], j) :
              \A i \in 1..Len(tabs[t].nodes) :
                tabs[t].nodes[i].id = tabs[t].connections[e][1]
                => \A c \in RunsBefore(tabs[t], j) : i >= c


\* the first endif line of ls, Len(ls) + 1 when there is none
FirstEndif(ls) ==
  IF \E e \in 1..Len(ls) : IsEndif(ls[e])
  THEN CHOOSE e \in 1..Len(ls) :
         IsEndif(ls[e]) /\ \A f \in 1..(e - 1) : ~IsEndif(ls[f])
  ELSE Len(ls) + 1

\* the lines of the block opened by the first line of ls, its endif excluded
FirstBlock(ls) == SubSeq(ls, 1, FirstEndif(ls) - 1)

\* the nodes of the main line after the block opened by the first line
NodesAfterFirstBlock(ls) ==
  BuildFrom(PreScan(SubSeq(ls, FirstEndif(ls) + 1, Len(ls)), 1), 1,
            BuildInit, Cfg).nodes

\* C22: in a section that starts with a trigger line, the block's nodes
\* are the condition node, whose content is the trigger line and the lines
\* met before any marker joined by newlines, then one node per non-blank
\* line routed to the true branch, then one per non-blank line routed to
\* the false branch, each line routed by the most recent marker; the lines
\* true:, false: and endif become no node and no content.
C22_ConditionalRouting ==
  (/\ SectionLines # <<>>
   /\ IsTrigger(SectionLines[1])
   /\ raised = "None")
  => /\ Len(tabs) = 1
     /\ LET expected == ImplicitBlockContents(FirstBlock(SectionLines), 1)
        IN  /\ Len(tabs[1].nodes)
                 = Len(expected) + Len(NodesAfterFirstBlock(SectionLines))
            /\ tabs[1].nodes[1].type = "if_show_variant"
            /\ \A i \in 1..Len(expected) :
                 /\ tabs[1].nodes[i].content = expected[i]
                 /\ i > 1 => tabs[1].nodes[i].type # "if_show_variant"

\* a block with a line before the markers and a line in each branch
C22_Witness ==
  /\ doc = <<LnIf, LnA, LnFalse, LnA, LnTrue, LnA, LnA, LnEndif>>
  /\ Len(tabs) = 1
  /\ Contents(tabs[1]) = <<LnIf \o <<NL>> \o LnA, LnA, LnA, LnA>>
  /\ tabs[1].connections = <<Edge(0, 1), Edge(1, 2), Edge(0, 3)>>


\* the edges inside a block whose condition node is n_0, with nt nodes in
\* the true branch followed by nf nodes in the false branch
BlockEdges(nt, nf) ==
  {Edge(0, 1) : x \in 1..(IF nt > 0 THEN 1 ELSE 0)}
  \cup {Edge(i, i + 1) : i \in 1..(nt - 1)}
  \cup {Edge(0, nt + 1) : x \in 1..(IF nf > 0 THEN 1 ELSE 0)}
  \cup {Edge(i, i + 1) : i \in (nt + 1)..(nt + nf - 1)}

\* the numbers of the node ids from lo to hi
IdsBetween(lo, hi) == {NodeId(i) : i \in lo..hi}

\* C23: in every section the node at index k (from 0) has id n_k; and a
\* conditional run contributes its condition node, then all its true-branch
\* nodes, then all its false-branch nodes: in a section that starts with a
\* trigger line the nodes after n_0 are the nt true-branch nodes chained
\* from n_0, then the nf false-branch nodes chained from n_0, whatever the
\* order of the markers in the text.
C23_IdsInEmissionOrder ==
  /\ \A t \in 1..Len(tabs) :
       IdList(tabs[t]) = [i \in 1..Len(tabs[t].nodes) |-> NodeId(i - 1)]
  /\ (/\ SectionLines # <<>>
      /\ IsTrigger(SectionLines[1])
      /\ raised = "None")
     => LET b == FirstBlock(SectionLines)
            nt == Len(RoutedTo(b, 1, "true", 2))
            nf == Len(RoutedTo(b, 1, "false", 2))
        IN  /\ Len(tabs) = 1
            /\ {e \in ConnSet(tabs[1]) : e[2] \in IdsBetween(1, nt + nf)}
                 = BlockEdges(nt, nf)

\* the false marker comes first in the text, with one line, and the true
\* branch has two: the true nodes are n_1, n_2 and the false node n_3
C23_Witness ==
  /\ doc = <<LnIf, LnFalse, LnA, LnTrue, LnA, LnA, LnEndif, LnA>>
  /\ Len(tabs) = 1
  /\ IdList(tabs[1]) = <<NodeId(0), NodeId(1), NodeId(2), NodeId(3), NodeId(4)>>
  /\ tabs[1].connections
       = <<Edge(0, 1), Edge(1, 2), Edge(0, 3), Edge(2, 4), Edge(3, 4)>>


---------------------------------------------------------------------------
(* Properties of the folding: stacks, headers, visibility *)

\* the line opens, or closes, a range of the kind "func" or "if"
IsOpener(kind, line) ==
  IF kind = "func"
  THEN ReMatch(PatFoldFunction, line) \/ ReMatch(PatFoldCall, line)
  ELSE ReMatch(PatFoldIf, line)

IsCloser(kind, line) ==
  IF kind = "func" THEN ReMatch(PatFoldEnd, line) ELSE ReMatch(PatFoldEndif, line)

\* the opener that the closer at block c (0-based) closes: the last opener
\* of its kind before c that no earlier closer has closed, -1 when every
\* opener before c is closed already
RECURSIVE ClosedBy(_, _, _)
ClosedBy(lines, kind, c) ==
  LET closed == {ClosedBy(lines, kind, d) :
                   d \in {d \in 0..(c - 1) : IsCloser(kind, lines[d + 1])}}
      open == {o \in 0..(c - 1) :
                 IsOpener(kind, lines[o + 1]) /\ o \notin closed}
  IN  IF open = {} THEN -1
      ELSE CHOOSE o \in open : \A q \in open : q <= o

\* the ranges of one kind: opener -> closer, for the closers that close one
Pairs(lines, kind) ==
  {<<ClosedBy(lines, kind, c), c>> :
     c \in {c \in 0..(Len(lines) - 1) :
              IsCloser(kind, lines[c + 1]) /\ ClosedBy(lines, kind, c) # -1}}

\* C24: the ranges that start at a function/call line or at an If Show
\* Variant line are exactly the pairs opener -> end and opener -> endif in
\* which the closer closes the most recently opened, still open line of
\* its own kind; a closer with no open line of its kind and an opener that
\* is never closed give no range.
C24_FoldStackDiscipline ==
  {<<s, fold_ranges[s]>> :
     s \in {s \in DOMAIN fold_ranges : ~ReMatch(PatFoldName, blocks[s + 1])}}
  = Pairs(blocks, "func") \cup Pairs(blocks, "if")

\* nested calls, the inner one closed first
C24_Witness ==
  /\ blocks = <<LnCall, LnCall, LnEnd, LnEnd>>
  /\ fold_ranges = DictSet(DictSet(EmptyDict, 1, 2), 0, 3)

\* an endif with no open If Show Variant, between a call and its end
C24_WitnessUnmatched ==
  /\ blocks = <<LnEndif, LnCall, LnEndif, LnEnd>>
  /\ fold_ranges = DictSet(EmptyDict, 1, 3)


IsHeader(line) == ReMatch(PatFoldName, line)

\* the blocks after h (0-based) that end a header's range
Terminators(lines, h) ==
  {j \in (h + 1)..(Len(lines) - 1) :
     ReMatch(PatFoldSeparator, lines[j + 1]) \/ IsHeader(lines[j + 1])}

\* the last block before the first terminator after h, or the last block
LastBefore(lines, h) ==
  IF Terminators(lines, h) = {} THEN Len(lines) - 1
  ELSE (CHOOSE j \in Terminators(lines, h) :
          \A k \in Terminators(lines, h) : j <= k) - 1

\* C25: for every name: header at block h the range h -> e is recorded, e
\* being the last block before the first later separator or header, or the
\* last block of the document; no range is recorded for h when h is the
\* last block or the next block is a separator or a header.
C25_HeaderFolds ==
  \A h \in 0..(Len(blocks) - 1) :
    IsHeader(blocks[h + 1])
    => IF LastBefore(blocks, h) > h
       THEN h \in DOMAIN fold_ranges /\ fold_ranges[h] = LastBefore(blocks, h)
       ELSE h \notin DOMAIN fold_ranges

\* a header ended by the next header, which is itself followed by a separator
C25_Witness ==
  /\ blocks = <<LnName, LnCall, LnName, LnSep>>
  /\ fold_ranges = DictSet(EmptyDict, 0, 1)


---------------------------------------------------------------------------
(* Properties of the autocomplete: evaluations and the active flag *)

\* the popup of an editor in which nothing was offered yet
FreshPopup ==
  [items |-> <<>>, row |-> -1, visible |-> FALSE, active |-> FALSE]

\* what an evaluation offers for the line, the cursor and the host's lists
\* when nothing preceded it
FreshOffer == ShowAutocomplete(current_line, cursor_pos, FreshPopup)

\* C26: the candidates offered by an evaluation are a function of the line,
\* the cursor offset and the host's lists only: whatever preceded it, an
\* evaluation makes the popup visible in the cases, and with the items, of
\* an evaluation of the same line, cursor and lists that nothing preceded.
C26_OfferDependsOnInputsOnly ==
  [][ show_autocomplete
        => /\ popup_visible' = FreshOffer.visible
           /\ FreshOffer.visible => popup_items' = FreshOffer.items ]_vars


\* C28: in every reachable state is_autocomplete_active is true exactly
\* when the autocomplete popup is visible.
C28_ActiveIffVisible == is_autocomplete_active <=> popup_visible


---------------------------------------------------------------------------
(* Properties of the folding: visibility of the blocks *)

\* block n (0-based) lies inside the range of a start that is folded
InFolded(n, fold_set, ranges) ==
  \E s \in fold_set \cap DOMAIN ranges : s + 1 <= n /\ n <= ranges[s]

\* a document edit: a line put in or lines taken out, with recomputation
DocumentEdit ==
  \/ \E k \in 0..MaxFoldLines : \E line \in FoldLines : insert_line(k, line)
  \/ \E a, b \in 0..(MaxFoldLines - 1) : remove_lines(a, b)

\* C27: after a document edit and the recomputation it triggers, no block
\* is left hidden unless it lies in start+1..end of a start that is still
\* in the folded set.
C27_PrunedFoldsAreUnfolded ==
  [][ DocumentEdit
        => \A n \in 0..(Len(blocks') - 1) :
             ~visible'[n + 1] => InFolded(n, folded', fold_ranges') ]_vars

\* the visibility of the blocks agrees with the folded set
VisibilityAgrees(vis, fold_set, ranges) ==
  \A n \in 0..(Len(vis) - 1) : vis[n + 1] <=> ~InFolded(n, fold_set, ranges)

\* C29: on an unchanged document, after any sequence of toggles the
\* visibility agrees with the folded set: the blocks s+1..end(s) of every
\* folded start s are hidden and every block in no such range is visible.
\* (Every agreeing state of a document is reached from its unfolded state
\* by folding its folded starts, so the claim is that a toggle keeps the
\* agreement.)
C29_TogglesKeepVisibility ==
  [][ \A n \in 0..MaxFoldLines :
        (toggle_fold_at_line(n) /\ VisibilityAgrees(visible, folded, fold_ranges))
        => VisibilityAgrees(visible', folded', fold_ranges') ]_vars


---------------------------------------------------------------------------
(* Properties of the graph builder: direction of the edges *)

\* C30: every edge of every section goes forward in emission order: for
\* each edge (n_i, n_j) of a section's connection list, i < j; so no
\* section has a self-loop or a cycle.
C30_EdgesGoForward ==
  \A t \in 1..Len(tabs) :
    \A e \in 1..Len(tabs[t].connections) :
      tabs[t].connections[e][1][2] < tabs[t].connections[e][2][2]

\* a normal node, a block and a normal node after it: an edge from
\* prev_node into the condition node and the edges from the pending ends
C30_Witness ==
  /\ doc = <<LnA, LnIf, LnEndif, LnA>>
  /\ Len(tabs) = 1
  /\ tabs[1].connections = <<Edge(0, 1), Edge(1, 2), Edge(1, 2)>>

==========================================================================
